---- MODULE Spec2Model ----
(***************************************************************************)
(* eva-core: the plan model (domain/plan.ts), its runner runPlan, and the  *)
(* Orchestrator (runtime/orchestrator.ts) that wraps a run with telemetry  *)
(* and exception containment.                                              *)
(*                                                                         *)
(* A run is one invocation of Orchestrator.run(plan).  Its position pc is  *)
(*   "idle"   not invoked yet                                              *)
(*   "loop"   runPlan is at the head of `for (const s of plan.steps)`      *)
(*   "await"  runPlan is suspended in `await s.action(ctx)`                *)
(*   "resume" runPlan's promise has settled, run() has not resumed yet     *)
(*   "done"   run()'s promise has settled                                  *)
(* JavaScript strings are sequences of one-character strings, so that      *)
(* template literals and String() are computed, not assumed.               *)
(***************************************************************************)
EXTENDS Integers, Sequences, FiniteSets, TLC

\* Longest plan that is enumerated.
MaxSteps == 2

\* Two invocation slots, so that runs can overlap at their await points.
Runs == {"r1", "r2"}

VARIABLES
    plan,       \* plan[r]: the Plan handed to run()
    sink,       \* sink[r]: the telemetry the Orchestrator was constructed with
    pc,         \* pc[r]: position of the run
    idx,        \* idx[r]: 1-based position of the for-of loop in plan.steps
    ctx,        \* ctx[r]: runPlan's StepContext
    summary,    \* summary[r]: runPlan's summary array
    inflight,   \* inflight[r]: steps whose action's promise is pending
    runner,     \* runner[r]: the promise returned by runPlan(plan)
    outcome,    \* outcome[r]: the promise returned by Orchestrator.run(plan)
    calls,      \* calls[r]: telemetry calls made by the current invocation
    log,        \* log[r]: predicates evaluated, actions invoked/settled, events emitted, in order
    callsLeft   \* callsLeft[r]: invocations of run() still to be made

vars == <<plan, sink, pc, idx, ctx, summary, inflight, runner, outcome, calls, log, callsLeft>>

----------------------------------------------------------------------------
\* JavaScript values

DigitChars == <<"0", "1", "2", "3", "4", "5", "6", "7", "8", "9">>

RECURSIVE Digits(_)
\* the decimal string of a non-negative integer, as `${i + 1}` produces it
Digits(n) ==
    IF n < 10 THEN <<DigitChars[n + 1]>>
    ELSE Digits(n \div 10) \o <<DigitChars[(n % 10) + 1]>>

Undefined == [type |-> "undefined"]

StrVal(s) == [type |-> "string", str |-> s]

\* {}
EmptyObject == [type |-> "object"]

\* new Error(m)
ErrorObj(m) == [type |-> "Error", message |-> m]

\* e?.message
MessageOf(e) ==
    IF "message" \in DOMAIN e THEN StrVal(e.message) ELSE Undefined

\* JavaScript truthiness of the values that occur here
Truthy(v) ==
    CASE v.type = "undefined" -> FALSE
      [] v.type = "string" -> v.str # <<>>
      [] OTHER -> TRUE

\* String(e): Error.prototype.toString for errors, "[object Object]" for plain objects
StringOf(e) ==
    CASE e.type = "string" -> e.str
      [] e.type = "undefined" -> <<"u", "n", "d", "e", "f", "i", "n", "e", "d">>
      [] e.type = "Error" ->
            IF e.message = <<>> THEN <<"E", "r", "r", "o", "r">>
            ELSE <<"E", "r", "r", "o", "r", ":", " ">> \o e.message
      [] OTHER -> <<"[", "o", "b", "j", "e", "c", "t", " ", "O", "b", "j", "e", "c", "t", "]">>

\* Result constructors (util/result)
ok(v) == [ok |-> TRUE, value |-> v]

err(e) == [ok |-> FALSE, error |-> e]

\* promise states
Pending == [state |-> "pending"]

Fulfilled(v) == [state |-> "fulfilled", value |-> v]

Rejected(e) == [state |-> "rejected", reason |-> e]

----------------------------------------------------------------------------
\* domain/ids.ts

\* an id helper that normalises the name: blanks are dropped
asPlanIdNoBlanks(s) == SelectSeq(s, LAMBDA c : c # " ")

\* return s as PlanId
asPlanId(s) == s

asStepId(s) == s

----------------------------------------------------------------------------
\* The behaviours a step's action and predicate can have.

\* "ok": resolves ok;  "set": writes vars.x = true, resolves ok;
\* "fail": resolves with a failing Result;  "throw": throws synchronously;
\* "reject": returns a promise that rejects;  "hang": its promise never settles
ActionKinds == {"ok", "set", "fail", "throw", "reject", "hang"}

\* "get" (used by the plans that are run again, below): resolves ok if
\* ctx.vars.x is set, with a failing Result otherwise
\* "none": the step has no `when`;  "ifset": returns ctx.vars.x
WhenKinds == {"none", "true", "false", "ifset", "throw"}

\* values an action or predicate may throw
Thrown ==
    { ErrorObj(<<"b", "o", "o", "m">>), ErrorObj(<<>>),
      StrVal(<<"b", "o", "o", "m">>), StrVal(<<>>), Undefined }

\* errors a failing Result may carry
StepErrors == { ErrorObj(<<"x">>), StrVal(<<"y">>) }

Letters == <<"a", "b", "c", "d", "e", "f", "g", "h">>

StepName(i) == <<Letters[i]>>

PlanName == <<"p">>

\* The behaviours of one step.  The action of a step whose predicate is the
\* constant false, or throws, is never reached: two kinds of action are kept
\* for it.  A step gated by "ifset" carries every kind of action.
StepKinds ==
    { b \in ActionKinds \X WhenKinds : b[2] \in {"false", "throw"} => b[1] \in {"ok", "fail"} }

\* the step specifications handed to makePlan, without explicit ids
StepInputs ==
    UNION { { [i \in 1..n |-> [name |-> StepName(i), action |-> b[i][1], when |-> b[i][2]]]
              : b \in [1..n -> StepKinds] }
            : n \in 0..MaxSteps }

----------------------------------------------------------------------------
\* domain/plan.ts

\* a makePlan whose generated ids carry the number of steps, not the index
makePlanNumbersByLength(name, steps) ==
    [ id |-> asPlanId(name),
      name |-> name,
      steps |-> [ i \in 1..Len(steps) |->
                    [ id |-> IF "id" \in DOMAIN steps[i]
                             THEN steps[i].id
                             ELSE asStepId(name \o <<"-", "s">> \o Digits(Len(steps))),
                      name |-> steps[i].name,
                      action |-> steps[i].action,
                      when |-> steps[i].when ] ] ]

\* a makePlan whose generated ids count only the steps that lack an id
makePlanCountsMissing(name, steps) ==
    [ id |-> asPlanId(name),
      name |-> name,
      steps |-> [ i \in 1..Len(steps) |->
                    [ id |-> IF "id" \in DOMAIN steps[i]
                             THEN steps[i].id
                             ELSE asStepId(name \o <<"-", "s">>
                                    \o Digits(Cardinality({ j \in 1..i : "id" \notin DOMAIN steps[j] }))),
                      name |-> steps[i].name,
                      action |-> steps[i].action,
                      when |-> steps[i].when ] ] ]

\* A step specification without an `id` field stands for every input whose
\* id is nullish (absent, undefined, null): `??` treats them alike.
makePlan(name, steps) ==
    [ id |-> asPlanId(name),
      name |-> name,
      steps |-> [ i \in 1..Len(steps) |->
                    [ id |-> IF "id" \in DOMAIN steps[i]
                             THEN steps[i].id
                             ELSE asStepId(name \o <<"-", "s">> \o Digits(i)),
                      name |-> steps[i].name,
                      action |-> steps[i].action,
                      when |-> steps[i].when ] ] ]

\* const ctx: StepContext = { vars: {} }
NewContext == [vars |-> <<>>]

\* ctx.vars.x = true
SetVar(c, k) ==
    [vars |-> [j \in (DOMAIN c.vars) \cup {k} |-> IF j = k THEN TRUE ELSE c.vars[j]]]

\* ctx.vars.x, as a truth value
GetVar(c, k) == k \in DOMAIN c.vars /\ c.vars[k]

\* an error whose message names the step by its id and that drops the cause
StepFailedById(s, e) ==
    err([ type |-> "object",
          message |-> <<"S", "t", "e", "p", " ", "f", "a", "i", "l", "e", "d", ":", " ">> \o s.id,
          cause |-> Undefined ])

\* err({ message: `Step failed: ${s.name}`, cause: r.error })
StepFailed(s, e) ==
    err([ type |-> "object",
          message |-> <<"S", "t", "e", "p", " ", "f", "a", "i", "l", "e", "d", ":", " ">> \o s.name,
          cause |-> e ])

\* a predicate evaluated against the context as it was when the run started
WhenReturnsEager(s, c) ==
    CASE s.when = "true" -> TRUE
      [] s.when = "false" -> FALSE
      [] OTHER -> GetVar(NewContext, "x")

\* the value of s.when(ctx), for the predicates that return
WhenReturns(s, c) ==
    CASE s.when = "true" -> TRUE
      [] s.when = "false" -> FALSE
      [] OTHER -> GetVar(c, "x")

\* s.when && !s.when(ctx)
Skips(s, c) == s.when # "none" /\ ~WhenReturns(s, c)

\* a skipped step reported as failed
SkipEntryFailed(s) == [id |-> s.id, ok |-> FALSE]

\* summary.push({ id: s.id, ok: true }) of a skipped step
SkipEntry(s) == [id |-> s.id, ok |-> TRUE]

\* the entry keyed by the step's name instead of its id
SummaryEntryByName(s, res) == [id |-> s.name, ok |-> res.ok]

\* an entry that reports every step that ran as ok
SummaryEntryAlwaysOk(s, res) == [id |-> s.id, ok |-> TRUE]

\* summary.push({ id: s.id, ok: r.ok })
SummaryEntry(s, res) == [id |-> s.id, ok |-> res.ok]

\* a runner that carries on after a failing step
AbortsNever(res) == FALSE

\* if (!r.ok) return ...
Aborts(res) == ~res.ok

\* return ok({ steps: summary })
RunPlanValue(sm) == ok([steps |-> sm])

----------------------------------------------------------------------------
\* spi/telemetry.ts and the sinks an Orchestrator is constructed with

MsgStart == "orchestrator.run.start"

MsgOk == "orchestrator.run.ok"

MsgError == "orchestrator.run.error"

MsgException == "orchestrator.run.exception"

Msgs == {MsgStart, MsgOk, MsgError, MsgException}

\* "none": new Orchestrator();  "noop": NoopTelemetry;  "mock": a recording
\* sink;  "faulty": a sink whose info/error throws on the messages in throwsOn
Sinks ==
    { [kind |-> k, throwsOn |-> {}] : k \in {"none", "noop", "mock"} }
      \cup { [kind |-> "faulty", throwsOn |-> T] : T \in { {m} : m \in Msgs } \cup {Msgs} }

\* what a faulty sink throws
SinkError == ErrorObj(<<"s", "i", "n", "k">>)

\* the call made without the optional chaining: with no telemetry it throws
EmitUnguarded(s, cs, level, msg, attrs) ==
    IF s.kind = "none" THEN [calls |-> cs, threw |-> TRUE]
    ELSE [ calls |-> Append(cs, [level |-> level, msg |-> msg, attrs |-> attrs]),
           threw |-> msg \in s.throwsOn ]

\* this.telemetry?.info(msg, attrs) / this.telemetry?.error(msg, attrs):
\* the calls made so far, and whether this call threw
Emit(s, cs, level, msg, attrs) ==
    IF s.kind = "none" THEN [calls |-> cs, threw |-> FALSE]
    ELSE [ calls |-> Append(cs, [level |-> level, msg |-> msg, attrs |-> attrs]),
           threw |-> msg \in s.throwsOn ]

----------------------------------------------------------------------------
\* runtime/orchestrator.ts

\* the attribute always taken from String(e)
ExceptionAttrString(e) == StrVal(StringOf(e))

\* e?.message || String(e)
ExceptionAttr(e) ==
    IF Truthy(MessageOf(e)) THEN MessageOf(e) ELSE StrVal(StringOf(e))

\* a catch block that logs and rethrows
CatchRethrows(s, cs, e) ==
    LET em == Emit(s, cs, "error", MsgException, [error |-> ExceptionAttr(e)])
    IN  [calls |-> em.calls, outcome |-> Rejected(e)]

\* a catch block that reports the exception as orchestrator.run.error
CatchLogsError(s, cs, e) ==
    LET em == Emit(s, cs, "error", MsgError, [error |-> ExceptionAttr(e)])
    IN  [ calls |-> em.calls,
          outcome |-> IF em.threw THEN Rejected(SinkError) ELSE Fulfilled(err(e)) ]

\* catch (e) { telemetry?.error("orchestrator.run.exception", ...); return err(e) }
Catch(s, cs, e) ==
    LET em == Emit(s, cs, "error", MsgException, [error |-> ExceptionAttr(e)])
    IN  [ calls |-> em.calls,
          outcome |-> IF em.threw THEN Rejected(SinkError) ELSE Fulfilled(err(e)) ]

\* a failure path that returns a new error made of the runner's message
OnFailureRewraps(s, cs, res) ==
    LET em == Emit(s, cs, "error", MsgError, [error |-> res.error])
    IN  IF em.threw THEN Catch(s, em.calls, SinkError)
        ELSE [calls |-> em.calls, outcome |-> Fulfilled(err(ErrorObj(res.error.message)))]

\* a failure path that reports the failure through warn
OnFailureWarns(s, cs, res) ==
    LET em == Emit(s, cs, "warn", MsgError, [error |-> res.error])
    IN  IF em.threw THEN Catch(s, em.calls, SinkError)
        ELSE [calls |-> em.calls, outcome |-> Fulfilled(res)]

\* a failure path that reports the failure and returns a success
OnFailureSwallows(s, cs, res) ==
    LET em == Emit(s, cs, "error", MsgError, [error |-> res.error])
    IN  IF em.threw THEN Catch(s, em.calls, SinkError)
        ELSE [calls |-> em.calls, outcome |-> Fulfilled(ok([steps |-> <<>>]))]

\* if (!r.ok) { telemetry?.error("orchestrator.run.error", { error: r.error }); return r }
OnFailure(s, cs, res) ==
    LET em == Emit(s, cs, "error", MsgError, [error |-> res.error])
    IN  IF em.threw THEN Catch(s, em.calls, SinkError)
        ELSE [calls |-> em.calls, outcome |-> Fulfilled(res)]

\* a success path that returns without recording the event
OnSuccessSilent(s, cs, res) == [calls |-> cs, outcome |-> Fulfilled(ok(res.value))]

\* a success path that reports the last index instead of the length
OnSuccessLastIndex(s, cs, res) ==
    LET em == Emit(s, cs, "info", MsgOk, [steps |-> Len(res.value.steps) - 1])
    IN  IF em.threw THEN Catch(s, em.calls, SinkError)
        ELSE [calls |-> em.calls, outcome |-> Fulfilled(ok(res.value))]

\* telemetry?.info("orchestrator.run.ok", { steps: r.value.steps.length }); return ok(r.value)
OnSuccess(s, cs, res) ==
    LET em == Emit(s, cs, "info", MsgOk, [steps |-> Len(res.value.steps)])
    IN  IF em.threw THEN Catch(s, em.calls, SinkError)
        ELSE [calls |-> em.calls, outcome |-> Fulfilled(ok(res.value))]

\* the rest of run() once `await runPlan(plan)` has settled with promise rp
AfterRunPlan(s, cs, rp) ==
    IF rp.state = "rejected" THEN Catch(s, cs, rp.reason)
    ELSE IF ~rp.value.ok THEN OnFailure(s, cs, rp.value)
    ELSE OnSuccess(s, cs, rp.value)

----------------------------------------------------------------------------
\* The state machine

Upd(f, r, v) == [f EXCEPT ![r] = v]

\* a log entry: ev is "when", "action", "settled" or "emit"; what it yielded
\* (res) and the value returned or thrown, if any
Entry(ev, i, res, v) == [ev |-> ev, step |-> i, res |-> res, val |-> v]

\* the log entries of the telemetry calls cs[from + 1 ..]
EmitLog(cs, from) ==
    [j \in 1..(Len(cs) - from) |-> Entry("emit", 0, cs[from + j].msg, Undefined)]

\* the step the loop is at
Cur(r) == plan[r].steps[idx[r]]

\* the log entry of evaluating s.when with outcome res, if s has a predicate
WhenLog(r, res, v) ==
    IF Cur(r).when # "none" THEN <<Entry("when", idx[r], res, v)>> ELSE <<>>

EmptyPlan == makePlan(PlanName, <<>>)

Plans == { makePlan(PlanName, in) : in \in StepInputs }

\* One orchestrator, one plan, one invocation of run(); the second slot is
\* never invoked.
Init ==
    \E p \in Plans, s \in Sinks :
        /\ plan = [r \in Runs |-> IF r = "r1" THEN p ELSE EmptyPlan]
        /\ sink = [r \in Runs |-> IF r = "r1" THEN s ELSE [kind |-> "none", throwsOn |-> {}]]
        /\ callsLeft = [r \in Runs |-> IF r = "r1" THEN 1 ELSE 0]
        /\ pc = [r \in Runs |-> "idle"]
        /\ idx = [r \in Runs |-> 1]
        /\ ctx = [r \in Runs |-> NewContext]
        /\ summary = [r \in Runs |-> <<>>]
        /\ inflight = [r \in Runs |-> {}]
        /\ runner = [r \in Runs |-> Pending]
        /\ outcome = [r \in Runs |-> Pending]
        /\ calls = [r \in Runs |-> <<>>]
        /\ log = [r \in Runs |-> <<>>]

\* an invocation whose runPlan goes on with the context of the previous one
RunKeepsContext(r) ==
    /\ pc[r] \in {"idle", "done"}
    /\ callsLeft[r] > 0
    /\ callsLeft' = Upd(callsLeft, r, callsLeft[r] - 1)
    /\ LET em == Emit(sink[r], <<>>, "info", MsgStart,
                      [planId |-> plan[r].id, name |-> plan[r].name])
           c  == Catch(sink[r], em.calls, SinkError)
       IN  /\ calls' = Upd(calls, r, IF em.threw THEN c.calls ELSE em.calls)
           /\ log' = Upd(log, r, EmitLog(calls'[r], 0))
           /\ outcome' = Upd(outcome, r, IF em.threw THEN c.outcome ELSE Pending)
           /\ pc' = Upd(pc, r, IF em.threw THEN "done" ELSE "loop")
    /\ runner' = Upd(runner, r, Pending)
    /\ summary' = Upd(summary, r, <<>>)
    /\ idx' = Upd(idx, r, 1)
    /\ inflight' = Upd(inflight, r, {})
    /\ UNCHANGED <<plan, sink, ctx>>

\* Orchestrator.run(plan) is invoked: orchestrator.ts:10-13 up to the call of
\* runPlan, and plan.ts:40-41.  If the start event throws, the catch block runs.
Run(r) ==
    /\ pc[r] \in {"idle", "done"}
    /\ callsLeft[r] > 0
    /\ callsLeft' = Upd(callsLeft, r, callsLeft[r] - 1)
    /\ LET em == Emit(sink[r], <<>>, "info", MsgStart,
                      [planId |-> plan[r].id, name |-> plan[r].name])
           c  == Catch(sink[r], em.calls, SinkError)
       IN  /\ calls' = Upd(calls, r, IF em.threw THEN c.calls ELSE em.calls)
           /\ log' = Upd(log, r, EmitLog(calls'[r], 0))
           /\ outcome' = Upd(outcome, r, IF em.threw THEN c.outcome ELSE Pending)
           /\ pc' = Upd(pc, r, IF em.threw THEN "done" ELSE "loop")
    /\ runner' = Upd(runner, r, Pending)
    /\ ctx' = Upd(ctx, r, NewContext)
    /\ summary' = Upd(summary, r, <<>>)
    /\ idx' = Upd(idx, r, 1)
    /\ inflight' = Upd(inflight, r, {})
    /\ UNCHANGED <<plan, sink>>

\* a skipped step that leaves no entry in the summary
SkipUnrecorded(r) ==
    /\ pc[r] = "loop"
    /\ idx[r] <= Len(plan[r].steps)
    /\ Cur(r).when \notin {"none", "throw"}
    /\ Skips(Cur(r), ctx[r])
    /\ idx' = Upd(idx, r, idx[r] + 1)
    /\ log' = Upd(log, r, log[r] \o WhenLog(r, "false", Undefined))
    /\ UNCHANGED <<plan, sink, pc, ctx, summary, inflight, runner, outcome, calls, callsLeft>>

\* a skipped step after which the loop goes on with a new context
SkipDropsContext(r) ==
    /\ pc[r] = "loop"
    /\ idx[r] <= Len(plan[r].steps)
    /\ Cur(r).when \notin {"none", "throw"}
    /\ Skips(Cur(r), ctx[r])
    /\ summary' = Upd(summary, r, Append(summary[r], SkipEntry(Cur(r))))
    /\ idx' = Upd(idx, r, idx[r] + 1)
    /\ log' = Upd(log, r, log[r] \o WhenLog(r, "false", Undefined))
    /\ ctx' = Upd(ctx, r, NewContext)
    /\ UNCHANGED <<plan, sink, pc, inflight, runner, outcome, calls, callsLeft>>

\* plan.ts:43-45: the predicate returns false, the step is skipped
Skip(r) ==
    /\ pc[r] = "loop"
    /\ idx[r] <= Len(plan[r].steps)
    /\ Cur(r).when \notin {"none", "throw"}
    /\ Skips(Cur(r), ctx[r])
    /\ summary' = Upd(summary, r, Append(summary[r], SkipEntry(Cur(r))))
    /\ idx' = Upd(idx, r, idx[r] + 1)
    /\ log' = Upd(log, r, log[r] \o WhenLog(r, "false", Undefined))
    /\ UNCHANGED <<plan, sink, pc, ctx, inflight, runner, outcome, calls, callsLeft>>

\* a runner that catches the predicate's exception and skips the step
WhenThrowsSkips(r) ==
    /\ pc[r] = "loop"
    /\ idx[r] <= Len(plan[r].steps)
    /\ Cur(r).when = "throw"
    /\ \E v \in Thrown :
          log' = Upd(log, r, log[r] \o WhenLog(r, "throw", v))
    /\ summary' = Upd(summary, r, Append(summary[r], SkipEntry(Cur(r))))
    /\ idx' = Upd(idx, r, idx[r] + 1)
    /\ UNCHANGED <<plan, sink, pc, ctx, inflight, runner, outcome, calls, callsLeft>>

\* plan.ts:43: the predicate throws; nothing in runPlan catches it
WhenThrows(r) ==
    /\ pc[r] = "loop"
    /\ idx[r] <= Len(plan[r].steps)
    /\ Cur(r).when = "throw"
    /\ \E v \in Thrown :
          /\ runner' = Upd(runner, r, Rejected(v))
          /\ log' = Upd(log, r, log[r] \o WhenLog(r, "throw", v))
    /\ pc' = Upd(pc, r, "resume")
    /\ UNCHANGED <<plan, sink, idx, ctx, summary, inflight, outcome, calls, callsLeft>>

\* the action is called and the loop goes on without awaiting its promise
InvokeNoAwait(r) ==
    /\ pc[r] = "loop"
    /\ idx[r] <= Len(plan[r].steps)
    /\ Cur(r).when # "throw"
    /\ ~Skips(Cur(r), ctx[r])
    /\ Cur(r).action # "throw"
    /\ inflight' = Upd(inflight, r, inflight[r] \cup {idx[r]})
    /\ idx' = Upd(idx, r, idx[r] + 1)
    /\ log' = Upd(log, r, (log[r] \o WhenLog(r, "true", Undefined))
                              \o <<Entry("action", idx[r], "called", Undefined)>>)
    /\ UNCHANGED <<plan, sink, pc, ctx, summary, runner, outcome, calls, callsLeft>>

\* plan.ts:43,47: the step is not gated off; s.action(ctx) is called and
\* returns a promise, on which runPlan awaits
Invoke(r) ==
    /\ pc[r] = "loop"
    /\ idx[r] <= Len(plan[r].steps)
    /\ Cur(r).when # "throw"
    /\ ~Skips(Cur(r), ctx[r])
    /\ Cur(r).action # "throw"
    /\ inflight' = Upd(inflight, r, inflight[r] \cup {idx[r]})
    /\ pc' = Upd(pc, r, "await")
    /\ log' = Upd(log, r, (log[r] \o WhenLog(r, "true", Undefined))
                              \o <<Entry("action", idx[r], "called", Undefined)>>)
    /\ UNCHANGED <<plan, sink, idx, ctx, summary, runner, outcome, calls, callsLeft>>

\* a runner that catches the action's exception and reports a failed step
ActionThrowsAsFailure(r) ==
    /\ pc[r] = "loop"
    /\ idx[r] <= Len(plan[r].steps)
    /\ Cur(r).when # "throw"
    /\ ~Skips(Cur(r), ctx[r])
    /\ Cur(r).action = "throw"
    /\ \E v \in Thrown :
          /\ runner' = Upd(runner, r, Fulfilled(StepFailed(Cur(r), v)))
          /\ log' = Upd(log, r, (log[r] \o WhenLog(r, "true", Undefined))
                                    \o <<Entry("action", idx[r], "throw", v)>>)
    /\ summary' = Upd(summary, r, Append(summary[r], [id |-> Cur(r).id, ok |-> FALSE]))
    /\ pc' = Upd(pc, r, "resume")
    /\ UNCHANGED <<plan, sink, idx, ctx, inflight, outcome, calls, callsLeft>>

\* plan.ts:43,47: s.action(ctx) throws synchronously
ActionThrows(r) ==
    /\ pc[r] = "loop"
    /\ idx[r] <= Len(plan[r].steps)
    /\ Cur(r).when # "throw"
    /\ ~Skips(Cur(r), ctx[r])
    /\ Cur(r).action = "throw"
    /\ \E v \in Thrown :
          /\ runner' = Upd(runner, r, Rejected(v))
          /\ log' = Upd(log, r, (log[r] \o WhenLog(r, "true", Undefined))
                                    \o <<Entry("action", idx[r], "throw", v)>>)
    /\ pc' = Upd(pc, r, "resume")
    /\ UNCHANGED <<plan, sink, idx, ctx, summary, inflight, outcome, calls, callsLeft>>

\* a runner that tries a failed step again
AfterAwaitRetries(r, res) ==
    /\ log' = Upd(log, r, Append(log[r],
                  Entry("settled", idx[r], IF res.ok THEN "ok" ELSE "fail",
                        IF res.ok THEN res.value ELSE res.error)))
    /\ runner' = runner
    /\ pc' = Upd(pc, r, "loop")
    /\ IF Aborts(res)
       THEN /\ summary' = summary
            /\ idx' = idx
       ELSE /\ summary' = Upd(summary, r, Append(summary[r], SummaryEntry(Cur(r), res)))
            /\ idx' = Upd(idx, r, idx[r] + 1)

\* a runner that throws the step's error instead of returning a failure
AfterAwaitThrows(r, res) ==
    /\ log' = Upd(log, r, Append(log[r],
                  Entry("settled", idx[r], IF res.ok THEN "ok" ELSE "fail",
                        IF res.ok THEN res.value ELSE res.error)))
    /\ summary' = Upd(summary, r, Append(summary[r], SummaryEntry(Cur(r), res)))
    /\ IF Aborts(res)
       THEN /\ runner' = Upd(runner, r, Rejected(res.error))
            /\ pc' = Upd(pc, r, "resume")
            /\ idx' = idx
       ELSE /\ runner' = runner
            /\ pc' = Upd(pc, r, "loop")
            /\ idx' = Upd(idx, r, idx[r] + 1)

\* plan.ts:48-49 with the Result res the awaited promise resolved with
AfterAwait(r, res) ==
    /\ log' = Upd(log, r, Append(log[r],
                  Entry("settled", idx[r], IF res.ok THEN "ok" ELSE "fail",
                        IF res.ok THEN res.value ELSE res.error)))
    /\ summary' = Upd(summary, r, Append(summary[r], SummaryEntry(Cur(r), res)))
    /\ IF Aborts(res)
       THEN /\ runner' = Upd(runner, r, Fulfilled(StepFailed(Cur(r), res.error)))
            /\ pc' = Upd(pc, r, "resume")
            /\ idx' = idx
       ELSE /\ runner' = runner
            /\ pc' = Upd(pc, r, "loop")
            /\ idx' = Upd(idx, r, idx[r] + 1)

\* a runPlan whose context is one object shared by all invocations: a write
\* lands in every run's context
SettleSharedContext(r) ==
    /\ pc[r] = "await"
    /\ Cur(r).action \in {"ok", "set", "get", "fail"}
    /\ \/ /\ Cur(r).action = "ok"
          /\ ctx' = ctx
          /\ AfterAwait(r, ok(EmptyObject))
       \/ /\ Cur(r).action = "get"
          /\ ctx' = ctx
          /\ \E e \in StepErrors :
                AfterAwait(r, IF GetVar(ctx[r], "x") THEN ok(EmptyObject) ELSE err(e))
       \/ /\ Cur(r).action = "set"
          /\ ctx' = [q \in Runs |-> SetVar(ctx[q], "x")]
          /\ AfterAwait(r, ok(EmptyObject))
       \/ /\ Cur(r).action = "fail"
          /\ ctx' = ctx
          /\ \E e \in StepErrors : AfterAwait(r, err(e))
    /\ inflight' = Upd(inflight, r, inflight[r] \ {idx[r]})
    /\ UNCHANGED <<plan, sink, outcome, calls, callsLeft>>

\* a runner with a timeout: an action that hangs is given up as failed
SettleTimesOut(r) ==
    /\ pc[r] = "await"
    /\ Cur(r).action \in {"ok", "set", "get", "fail", "hang"}
    /\ \/ /\ Cur(r).action = "ok"
          /\ ctx' = ctx
          /\ AfterAwait(r, ok(EmptyObject))
       \/ /\ Cur(r).action = "get"
          /\ ctx' = ctx
          /\ \E e \in StepErrors :
                AfterAwait(r, IF GetVar(ctx[r], "x") THEN ok(EmptyObject) ELSE err(e))
       \/ /\ Cur(r).action = "set"
          /\ ctx' = Upd(ctx, r, SetVar(ctx[r], "x"))
          /\ AfterAwait(r, ok(EmptyObject))
       \/ /\ Cur(r).action \in {"fail", "hang"}
          /\ ctx' = ctx
          /\ \E e \in StepErrors : AfterAwait(r, err(e))
    /\ inflight' = Upd(inflight, r, inflight[r] \ {idx[r]})
    /\ UNCHANGED <<plan, sink, outcome, calls, callsLeft>>

\* the awaited promise resolves with a Result: plan.ts:47-49
Settle(r) ==
    /\ pc[r] = "await"
    /\ Cur(r).action \in {"ok", "set", "get", "fail"}
    /\ \/ /\ Cur(r).action = "ok"
          /\ ctx' = ctx
          /\ AfterAwait(r, ok(EmptyObject))
       \/ /\ Cur(r).action = "get"
          /\ ctx' = ctx
          /\ \E e \in StepErrors :
                AfterAwait(r, IF GetVar(ctx[r], "x") THEN ok(EmptyObject) ELSE err(e))
       \/ /\ Cur(r).action = "set"
          /\ ctx' = Upd(ctx, r, SetVar(ctx[r], "x"))
          /\ AfterAwait(r, ok(EmptyObject))
       \/ /\ Cur(r).action = "fail"
          /\ ctx' = ctx
          /\ \E e \in StepErrors : AfterAwait(r, err(e))
    /\ inflight' = Upd(inflight, r, inflight[r] \ {idx[r]})
    /\ UNCHANGED <<plan, sink, outcome, calls, callsLeft>>

\* the awaited promise rejects: the await at plan.ts:47 throws
Reject(r) ==
    /\ pc[r] = "await"
    /\ Cur(r).action = "reject"
    /\ \E v \in Thrown :
          /\ runner' = Upd(runner, r, Rejected(v))
          /\ log' = Upd(log, r, Append(log[r], Entry("settled", idx[r], "reject", v)))
    /\ pc' = Upd(pc, r, "resume")
    /\ inflight' = Upd(inflight, r, inflight[r] \ {idx[r]})
    /\ UNCHANGED <<plan, sink, idx, ctx, summary, outcome, calls, callsLeft>>

\* a loop that has consumed the plan's steps when it returns
ReturnConsumesPlan(r) ==
    /\ pc[r] = "loop"
    /\ idx[r] > Len(plan[r].steps)
    /\ runner' = Upd(runner, r, Fulfilled(RunPlanValue(summary[r])))
    /\ pc' = Upd(pc, r, "resume")
    /\ plan' = Upd(plan, r, [plan[r] EXCEPT !.steps = <<>>])
    /\ UNCHANGED <<sink, idx, ctx, summary, inflight, outcome, calls, log, callsLeft>>

\* a runner that reports a plan without steps as a failure
ReturnRefusesEmptyPlan(r) ==
    /\ pc[r] = "loop"
    /\ idx[r] > Len(plan[r].steps)
    /\ runner' = Upd(runner, r, Fulfilled(IF summary[r] = <<>>
                                          THEN err(ErrorObj(<<"e", "m", "p", "t", "y">>))
                                          ELSE RunPlanValue(summary[r])))
    /\ pc' = Upd(pc, r, "resume")
    /\ UNCHANGED <<plan, sink, idx, ctx, summary, inflight, outcome, calls, log, callsLeft>>

\* a runner that, the loop over, waits on a promise nobody settles
ReturnStalls(r) ==
    /\ pc[r] = "loop"
    /\ idx[r] > Len(plan[r].steps)
    /\ pc' = Upd(pc, r, "stalled")
    /\ UNCHANGED <<plan, sink, idx, ctx, summary, inflight, runner, outcome, calls, log, callsLeft>>

\* plan.ts:42,51: the loop is over, runPlan returns ok({ steps: summary })
Return(r) ==
    /\ pc[r] = "loop"
    /\ idx[r] > Len(plan[r].steps)
    /\ runner' = Upd(runner, r, Fulfilled(RunPlanValue(summary[r])))
    /\ pc' = Upd(pc, r, "resume")
    /\ UNCHANGED <<plan, sink, idx, ctx, summary, inflight, outcome, calls, log, callsLeft>>

\* orchestrator.ts:13-23: `await runPlan(plan)` resumes run()
Resume(r) ==
    /\ pc[r] = "resume"
    /\ LET a == AfterRunPlan(sink[r], calls[r], runner[r])
       IN  /\ calls' = Upd(calls, r, a.calls)
           /\ outcome' = Upd(outcome, r, a.outcome)
           /\ log' = Upd(log, r, log[r] \o EmitLog(a.calls, Len(calls[r])))
    /\ pc' = Upd(pc, r, "done")
    /\ UNCHANGED <<plan, sink, idx, ctx, summary, inflight, runner, callsLeft>>

Next ==
    \E r \in Runs :
        \/ Run(r)
        \/ Skip(r)
        \/ WhenThrows(r)
        \/ Invoke(r)
        \/ ActionThrows(r)
        \/ Settle(r)
        \/ Reject(r)
        \/ Return(r)
        \/ Resume(r)

Spec == Init /\ [][Next]_vars

----------------------------------------------------------------------------
\* Vocabulary of the properties

\* the log of run r holds an entry of kind ev for step i that yielded res
Logged(r, ev, i, res) ==
    \E j \in 1..Len(log[r]) :
        log[r][j].ev = ev /\ log[r][j].step = i /\ log[r][j].res = res

\* the predicate or the action of step i was evaluated in run r
Touched(r, i) ==
    \E j \in 1..Len(log[r]) : log[r][j].ev \in {"when", "action"} /\ log[r][j].step = i

NSteps(r) == Len(plan[r].steps)

\* runPlan has returned a Result to its caller
Returned(r) == runner[r].state = "fulfilled"

\* the telemetry of run r never throws
SinkSound(r) == sink[r].throwsOn = {}

----------------------------------------------------------------------------
\* C1: when the action of step k returns a failing Result, runPlan returns a
\* failure Result at once, and no predicate and no action of a later step is
\* ever evaluated in that run.
C1_FailureAbortsRun ==
    \A r \in Runs : \A k \in 1..NSteps(r) :
        Logged(r, "settled", k, "fail") =>
            /\ Returned(r)
            /\ ~runner[r].value.ok
            /\ \A i \in (k + 1)..NSteps(r) : ~Touched(r, i)

\* a two-step plan whose first action failed, run to its end
C1_Witness ==
    \E r \in Runs :
        /\ NSteps(r) >= 2
        /\ Logged(r, "settled", 1, "fail")
        /\ plan[r].steps[2].action = "ok"
        /\ pc[r] = "done"

\* C2: when all N >= 1 actions of a plan were invoked and returned ok, the
\* Result runPlan returns is a success whose summary has exactly N entries,
\* the i-th being {id: plan.steps[i].id, ok: true}.
C2_AllSucceedSummary ==
    \A r \in Runs :
        ( /\ NSteps(r) >= 1
          /\ \A i \in 1..NSteps(r) : Logged(r, "settled", i, "ok")
          /\ pc[r] \in {"resume", "done"} )
        => /\ Returned(r)
           /\ runner[r].value.ok
           /\ Len(runner[r].value.value.steps) = NSteps(r)
           /\ \A i \in 1..NSteps(r) :
                 runner[r].value.value.steps[i] = [id |-> plan[r].steps[i].id, ok |-> TRUE]

\* a plan of MaxSteps steps, all of which ran and succeeded
C2_Witness ==
    \E r \in Runs :
        /\ NSteps(r) = MaxSteps
        /\ \A i \in 1..NSteps(r) : Logged(r, "settled", i, "ok")
        /\ pc[r] = "done"

\* the action of step i was called in run r
ActionCalled(r, i) ==
    \E j \in 1..Len(log[r]) : log[r][j].ev = "action" /\ log[r][j].step = i

\* what holds of a run in which predicates returned false
SkippedState(r) ==
    /\ \A i \in 1..NSteps(r) :
          Logged(r, "when", i, "false") =>
              /\ Len(summary[r]) >= i
              /\ summary[r][i] = [id |-> plan[r].steps[i].id, ok |-> TRUE]
              /\ ~ActionCalled(r, i)
    /\ ( /\ NSteps(r) >= 1
         /\ \A i \in 1..NSteps(r) : Logged(r, "when", i, "false")
         /\ pc[r] \in {"resume", "done"} )
       => (Returned(r) /\ runner[r].value.ok)

\* the step taken evaluates the predicate of the current step to false
SkipTaken(r) ==
    /\ pc[r] = "loop"
    /\ log'[r] = Append(log[r], Entry("when", idx[r], "false", Undefined))

\* C3: a step whose predicate returns false is recorded as {id, ok: true},
\* its action is never called, the skip leaves the StepContext as it was and
\* the loop moves on to the next step; a plan whose steps are all skipped
\* returns success.
C3_SkipRecordedAsOk ==
    [][ \A r \in Runs :
          /\ SkippedState(r)'
          /\ SkipTaken(r) =>
                /\ ctx'[r] = ctx[r]
                /\ idx'[r] = idx[r] + 1
                /\ pc'[r] = "loop"
                /\ summary'[r] = Append(summary[r], [id |-> Cur(r).id, ok |-> TRUE]) ]_vars

\* the first step, whose action would fail, was skipped, and the action of
\* the second step was called
C3_Witness ==
    \E r \in Runs :
        /\ NSteps(r) >= 2
        /\ plan[r].steps[1].action = "fail"
        /\ Logged(r, "when", 1, "false")
        /\ Logged(r, "action", 2, "called")
        /\ summary[r][1].ok

\* a Result: { ok: true, value } or { ok: false, error }
IsResult(v) ==
    \/ (DOMAIN v = {"ok", "value"} /\ v.ok = TRUE)
    \/ (DOMAIN v = {"ok", "error"} /\ v.ok = FALSE)

\* an action or a predicate of run r threw, or an action's promise rejected
Threw(r) == \E j \in 1..Len(log[r]) : log[r][j].res \in {"throw", "reject"}

\* C4: with a telemetry that does not throw, whatever the steps do (return
\* ok, return a failing Result, throw, reject), the promise of
\* Orchestrator.run is never rejected, and once settled it holds a Result.
C4_RunNeverRejects ==
    \A r \in Runs :
        SinkSound(r) =>
            /\ outcome[r].state # "rejected"
            /\ pc[r] = "done" => (outcome[r].state = "fulfilled" /\ IsResult(outcome[r].value))

\* a run whose second action's promise rejected ended with a failure Result
C4_Witness ==
    \E r \in Runs :
        /\ SinkSound(r)
        /\ Logged(r, "settled", 2, "reject")
        /\ pc[r] = "done"
        /\ outcome[r].state = "fulfilled"
        /\ ~outcome[r].value.ok

\* a telemetry that records and never throws
SoundSink == [kind |-> "mock", throwsOn |-> {}]

\* C5: whatever telemetry call throws, the steps are run and run() settles as
\* it does with a telemetry that never throws.
C5_SinkFailureHarmless ==
    \A r \in Runs :
        pc[r] = "done" =>
            /\ runner[r].state # "pending"
            /\ outcome[r] = AfterRunPlan(SoundSink, <<>>, runner[r]).outcome

\* the terminal event the steps of run r call for
Terminal(r) ==
    IF Threw(r) THEN MsgException
    ELSE IF \E i \in 1..NSteps(r) : Logged(r, "settled", i, "fail") THEN MsgError
    ELSE MsgOk

\* C6: with a telemetry sink that does not throw, run() first emits
\* orchestrator.run.start (info), nothing more while the plan runs, and then
\* exactly one of run.ok (every step succeeded or was skipped), run.error (a
\* step returned a failing Result), run.exception (an action or a predicate
\* threw).
C6_StartThenOneTerminal ==
    \A r \in Runs :
        (SinkSound(r) /\ sink[r].kind # "none" /\ pc[r] # "idle") =>
            /\ Len(calls[r]) >= 1
            /\ calls[r][1].msg = MsgStart
            /\ calls[r][1].level = "info"
            /\ log[r][1] = Entry("emit", 0, MsgStart, Undefined)
            /\ pc[r] # "done" => Len(calls[r]) = 1
            /\ pc[r] = "done" =>
                  /\ Len(calls[r]) = 2
                  /\ calls[r][2].msg = Terminal(r)
                  /\ calls[r][2].msg = MsgOk <=>
                        \A i \in 1..NSteps(r) :
                            Logged(r, "settled", i, "ok") \/ Logged(r, "when", i, "false")

\* a recorded run whose first step was skipped and whose second predicate threw
C6_Witness ==
    \E r \in Runs :
        /\ sink[r].kind = "mock"
        /\ pc[r] = "done"
        /\ Logged(r, "when", 1, "false")
        /\ Logged(r, "when", 2, "throw")
        /\ Len(calls[r]) = 2
        /\ calls[r][2].msg = MsgException

\* C7: at most one action of a run is in flight; evaluations follow the order
\* of plan.steps; and between the call of an action and any later evaluation
\* of a predicate or action lies the settlement of that action's promise.
C7_OneActionAtATime ==
    \A r \in Runs :
        /\ Cardinality(inflight[r]) <= 1
        /\ inflight[r] = (IF pc[r] = "await" THEN {idx[r]} ELSE {})
        /\ \A j, k \in 1..Len(log[r]) :
              (j < k /\ log[r][j].ev # "emit" /\ log[r][k].ev # "emit") =>
                  /\ log[r][j].step <= log[r][k].step
                  /\ (log[r][j].ev = "action" /\ log[r][j].res = "called"
                        /\ log[r][k].ev \in {"when", "action"}) =>
                        \E m \in (j + 1)..(k - 1) :
                            log[r][m].ev = "settled" /\ log[r][m].step = log[r][j].step

\* the second action is in flight after the first one settled
C7_Witness ==
    \E r \in Runs :
        /\ inflight[r] = {2}
        /\ Logged(r, "settled", 1, "ok")
        /\ Logged(r, "action", 2, "called")

\* the values thrown by an action of run r, or its promise's rejection reason
ActionThrown(r) ==
    { log[r][j].val : j \in { m \in 1..Len(log[r]) :
                                 /\ log[r][m].ev \in {"action", "settled"}
                                 /\ log[r][m].res \in {"throw", "reject"} } }

\* the thrown value has a message, and the message is not empty
HasMessage(e) == e.type = "Error" /\ e.message # <<>>

\* C8: when an action throws or rejects with e, run() (telemetry not
\* throwing) emits orchestrator.run.exception at level error with
\* error = e.message when e has a (non-empty) message and String(e)
\* otherwise, and returns the failure Result whose error is e itself.
C8_ExceptionEvent ==
    \A r \in Runs :
        (SinkSound(r) /\ pc[r] = "done") =>
            \A e \in ActionThrown(r) :
                /\ outcome[r] = Fulfilled([ok |-> FALSE, error |-> e])
                /\ sink[r].kind # "none" =>
                      calls[r][Len(calls[r])] =
                          [ level |-> "error", msg |-> MsgException,
                            attrs |-> [error |-> IF HasMessage(e) THEN StrVal(e.message)
                                                 ELSE StrVal(StringOf(e))] ]

\* an action threw new Error("boom") and the recorded event carries "boom"
C8_Witness ==
    \E r \in Runs :
        /\ sink[r].kind = "mock"
        /\ pc[r] = "done"
        /\ ActionThrown(r) = {ErrorObj(<<"b", "o", "o", "m">>)}
        /\ calls[r][Len(calls[r])].attrs.error = StrVal(<<"b", "o", "o", "m">>)

\* C9: when runPlan returns a failure, run() (telemetry not throwing) emits
\* orchestrator.run.error carrying the runner's error and settles with the
\* runner's Result itself: message "Step failed: <name of the failed step>",
\* cause the error the action returned, nothing wrapped around it.
C9_FailurePassedThrough ==
    \A r \in Runs :
        (SinkSound(r) /\ pc[r] = "done" /\ Returned(r) /\ ~runner[r].value.ok) =>
            /\ outcome[r] = Fulfilled(runner[r].value)
            /\ sink[r].kind # "none" =>
                  calls[r][Len(calls[r])] =
                      [ level |-> "error", msg |-> MsgError,
                        attrs |-> [error |-> runner[r].value.error] ]
            /\ \E j \in 1..Len(log[r]) :
                  /\ log[r][j].ev = "settled" /\ log[r][j].res = "fail"
                  /\ outcome[r].value.error =
                        [ type |-> "object",
                          message |-> <<"S", "t", "e", "p", " ", "f", "a", "i", "l", "e", "d", ":", " ">>
                                        \o plan[r].steps[log[r][j].step].name,
                          cause |-> log[r][j].val ]

\* the second step failed and the caller received "Step failed: b"
C9_Witness ==
    \E r \in Runs :
        /\ sink[r].kind = "mock"
        /\ pc[r] = "done"
        /\ Logged(r, "settled", 2, "fail")
        /\ ~outcome[r].value.ok
        /\ calls[r][2].msg = MsgError

\* C10: when runPlan returns success, run() (telemetry not throwing) emits
\* orchestrator.run.ok with steps = the length of the summary = the number of
\* plan steps, skipped ones included, makes no error-level call, and settles
\* with a success Result carrying the runner's summary.
C10_SuccessEvent ==
    \A r \in Runs :
        (SinkSound(r) /\ pc[r] = "done" /\ Returned(r) /\ runner[r].value.ok) =>
            /\ outcome[r] = Fulfilled([ok |-> TRUE, value |-> [steps |-> summary[r]]])
            /\ runner[r].value.value.steps = summary[r]
            /\ Len(summary[r]) = NSteps(r)
            /\ sink[r].kind # "none" =>
                  /\ Len(calls[r]) = 2
                  /\ calls[r][2] = [level |-> "info", msg |-> MsgOk, attrs |-> [steps |-> NSteps(r)]]
                  /\ \A j \in 1..Len(calls[r]) : calls[r][j].level # "error"

\* a successful two-step run with one skipped step reported steps = 2
C10_Witness ==
    \E r \in Runs :
        /\ sink[r].kind = "mock"
        /\ pc[r] = "done"
        /\ NSteps(r) = 2
        /\ Logged(r, "when", 1, "false")
        /\ Logged(r, "settled", 2, "ok")
        /\ calls[r][2].msg = MsgOk
        /\ calls[r][2].attrs.steps = 2

\* "Step failed: "
StepFailedPrefix == <<"S", "t", "e", "p", " ", "f", "a", "i", "l", "e", "d", ":", " ">>

\* C11: when the action of step k returns a failing Result with error e, the
\* Result runPlan returns is a failure whose error has the message
\* "Step failed: " followed by the name of step k, and the cause e.
C11_StepFailedError ==
    \A r \in Runs : \A j \in 1..Len(log[r]) :
        (log[r][j].ev = "settled" /\ log[r][j].res = "fail") =>
            /\ Returned(r)
            /\ ~runner[r].value.ok
            /\ runner[r].value.error.message
                  = StepFailedPrefix \o plan[r].steps[log[r][j].step].name
            /\ runner[r].value.error.cause = log[r][j].val
            /\ log[r][j].val \in StepErrors

\* the second step failed with the string "y" after the first succeeded:
\* the error reads "Step failed: b"
C11_Witness ==
    \E r \in Runs :
        /\ Logged(r, "settled", 1, "ok")
        /\ Logged(r, "settled", 2, "fail")
        /\ runner[r].state = "fulfilled"
        /\ runner[r].value.error.message = StepFailedPrefix \o <<"b">>
        /\ runner[r].value.error.cause = StrVal(<<"y">>)

\* C12: when step k is the first (hence only) step whose action returned a
\* failing Result, the summary of the run has exactly k entries, those of
\* steps 1..k in plan order, skipped steps included, the first k-1 with ok
\* true and the k-th with ok false; and runPlan has returned a failure.
C12_SummaryUpToFailure ==
    \A r \in Runs : \A k \in 1..NSteps(r) :
        Logged(r, "settled", k, "fail") =>
            /\ Len(summary[r]) = k
            /\ \A i \in 1..k :
                  summary[r][i] = [id |-> plan[r].steps[i].id, ok |-> (i < k)]
            /\ \A i \in 1..(k - 1) :
                  Logged(r, "settled", i, "ok") \/ Logged(r, "when", i, "false")
            /\ Returned(r)
            /\ ~runner[r].value.ok

\* the first of two steps failed: the summary is its single entry, with ok
\* false, and the run is over
C12_Witness ==
    \E r \in Runs :
        /\ NSteps(r) = 2
        /\ Logged(r, "settled", 1, "fail")
        /\ summary[r] = <<[id |-> plan[r].steps[1].id, ok |-> FALSE]>>
        /\ pc[r] = "done"

----------------------------------------------------------------------------
\* The same plan run by two orchestrators, the first constructed without
\* telemetry, the second with NoopTelemetry or with a recording sink, the
\* second run after the first.

InitSinks ==
    \E p \in Plans, k \in {"noop", "mock"} :
        /\ plan = [r \in Runs |-> p]
        /\ sink = [r \in Runs |-> [kind |-> IF r = "r1" THEN "none" ELSE k, throwsOn |-> {}]]
        /\ callsLeft = [r \in Runs |-> 1]
        /\ pc = [r \in Runs |-> "idle"]
        /\ idx = [r \in Runs |-> 1]
        /\ ctx = [r \in Runs |-> NewContext]
        /\ summary = [r \in Runs |-> <<>>]
        /\ inflight = [r \in Runs |-> {}]
        /\ runner = [r \in Runs |-> Pending]
        /\ outcome = [r \in Runs |-> Pending]
        /\ calls = [r \in Runs |-> <<>>]
        /\ log = [r \in Runs |-> <<>>]

\* the second orchestrator is used once the first run is over
Turn(r) == r = "r2" => pc["r1"] = "done"

NextSinks ==
    \E r \in Runs :
        \/ Turn(r) /\ Run(r)
        \/ Turn(r) /\ Skip(r)
        \/ Turn(r) /\ WhenThrows(r)
        \/ Turn(r) /\ Invoke(r)
        \/ Turn(r) /\ ActionThrows(r)
        \/ Turn(r) /\ Settle(r)
        \/ Turn(r) /\ Reject(r)
        \/ Turn(r) /\ Return(r)
        \/ Turn(r) /\ Resume(r)

SpecSinks == InitSinks /\ [][NextSinks]_vars

\* what the steps of run r did, telemetry left out
StepLog(r) == SelectSeq(log[r], LAMBDA e : e.ev # "emit")

\* the steps of the two runs behaved alike: where both logs have an entry,
\* the values returned or thrown are the same
SameBehaviour ==
    \A j \in 1..Len(StepLog("r1")) :
        j <= Len(StepLog("r2")) => StepLog("r1")[j].val = StepLog("r2")[j].val

\* C13: the same plan, its steps behaving alike, run without telemetry and
\* run with NoopTelemetry or a recording sink: the two runs evaluate the same
\* predicates and actions with the same results, runPlan settles alike and
\* run() settles with equal Results; only the telemetry calls differ.
C13_ResultIndependentOfSink ==
    (pc["r1"] = "done" /\ pc["r2"] = "done" /\ SameBehaviour) =>
        /\ outcome["r1"] = outcome["r2"]
        /\ outcome["r1"].state = "fulfilled"
        /\ runner["r1"] = runner["r2"]
        /\ StepLog("r1") = StepLog("r2")
        /\ summary["r1"] = summary["r2"]
        /\ calls["r1"] = <<>>
        /\ Len(calls["r2"]) = 2

\* both runs of a two-step plan are over, one step skipped and one failed;
\* the sink of the second recorded two events, the Results are equal
C13_Witness ==
    /\ pc["r1"] = "done"
    /\ pc["r2"] = "done"
    /\ sink["r2"].kind = "mock"
    /\ SameBehaviour
    /\ Logged("r1", "when", 1, "false")
    /\ Logged("r1", "settled", 2, "fail")
    /\ ~outcome["r2"].value.ok
    /\ Len(calls["r2"]) = 2

----------------------------------------------------------------------------
\* a step of run r returned a failing Result
StepFailedIn(r) == \E i \in 1..NSteps(r) : Logged(r, "settled", i, "fail")

\* run() has settled with a success Result
Succeeded(r) == outcome[r].state = "fulfilled" /\ outcome[r].value.ok

\* C14: whatever the telemetry does, run() settles with a success Result only
\* if every step of the plan was skipped or had its action return ok; when a
\* step returned a failing Result, or an action or a predicate threw, run()
\* does not settle with a success, and with a telemetry that does not throw it
\* returns a failure Result.
C14_NoFalseSuccess ==
    \A r \in Runs :
        /\ Succeeded(r) =>
              /\ runner[r].state = "fulfilled"
              /\ runner[r].value.ok
              /\ \A i \in 1..NSteps(r) :
                    Logged(r, "settled", i, "ok") \/ Logged(r, "when", i, "false")
        /\ (pc[r] = "done" /\ (StepFailedIn(r) \/ Threw(r))) =>
              /\ ~Succeeded(r)
              /\ SinkSound(r) => (outcome[r].state = "fulfilled" /\ ~outcome[r].value.ok)

\* a run whose first step succeeded and whose second step's predicate threw
\* has returned a failure Result
C14_Witness ==
    \E r \in Runs :
        /\ pc[r] = "done"
        /\ Logged(r, "settled", 1, "ok")
        /\ Logged(r, "when", 2, "throw")
        /\ outcome[r].state = "fulfilled"
        /\ ~outcome[r].value.ok

----------------------------------------------------------------------------
\* One orchestrator whose plan is run again after the previous run is over.

MaxCalls == 2

MaxRerunSteps == 3

\* steps that write vars.x, read it in the predicate or in the action, are
\* gated off, fail, throw or reject
RerunKinds ==
    { <<"set", "none">>, <<"get", "none">>, <<"get", "ifset">>, <<"ok", "false">>,
      <<"fail", "none">>, <<"throw", "none">>, <<"reject", "none">>, <<"ok", "throw">> }

RerunPlans ==
    UNION { { makePlan(PlanName,
                       [i \in 1..n |-> [name |-> StepName(i), action |-> b[i][1], when |-> b[i][2]]])
              : b \in [1..n -> RerunKinds] }
            : n \in 1..MaxRerunSteps }

InitRerun ==
    \E p \in RerunPlans, k \in {"none", "mock"} :
        /\ plan = [r \in Runs |-> IF r = "r1" THEN p ELSE EmptyPlan]
        /\ sink = [r \in Runs |-> [kind |-> IF r = "r1" THEN k ELSE "none", throwsOn |-> {}]]
        /\ callsLeft = [r \in Runs |-> IF r = "r1" THEN MaxCalls ELSE 0]
        /\ pc = [r \in Runs |-> "idle"]
        /\ idx = [r \in Runs |-> 1]
        /\ ctx = [r \in Runs |-> NewContext]
        /\ summary = [r \in Runs |-> <<>>]
        /\ inflight = [r \in Runs |-> {}]
        /\ runner = [r \in Runs |-> Pending]
        /\ outcome = [r \in Runs |-> Pending]
        /\ calls = [r \in Runs |-> <<>>]
        /\ log = [r \in Runs |-> <<>>]

SpecRerun == InitRerun /\ [][Next]_vars

\* in the current invocation of run r, a step before step j wrote vars.x
SetBefore(r, j) ==
    \E i \in 1..(j - 1) : plan[r].steps[i].action = "set" /\ Logged(r, "settled", i, "ok")

\* C16: log[r] holds the current invocation only.  In every invocation, the
\* first one and the ones that follow a run that ended with success, failure
\* or exception: the context holds x only if a step of this invocation wrote
\* it, a predicate reading x returned true only after such a step, and an
\* action reading x found it only after such a step.
C16_FreshContext ==
    \A r \in Runs :
        /\ GetVar(ctx[r], "x") => SetBefore(r, NSteps(r) + 1)
        /\ (pc[r] = "loop" /\ idx[r] = 1) => ctx[r] = NewContext
        /\ \A j \in 1..Len(log[r]) :
              LET e == log[r][j]
              IN  /\ (e.ev = "when" /\ plan[r].steps[e.step].when = "ifset" /\ e.res = "true")
                         => SetBefore(r, e.step)
                  /\ (e.ev = "settled" /\ plan[r].steps[e.step].action = "get" /\ e.res = "ok")
                         => SetBefore(r, e.step)


\* the second run of a plan whose first run wrote x in step 2 and ended with
\* an exception in step 3: the predicate of step 1, which reads x, returned
\* false again
C16_Witness ==
    \E r \in Runs :
        /\ callsLeft[r] = 0
        /\ MaxCalls > 1
        /\ pc[r] = "done"
        /\ NSteps(r) = 3
        /\ plan[r].steps[1].when = "ifset"
        /\ plan[r].steps[2].action = "set"
        /\ Logged(r, "when", 1, "false")
        /\ Logged(r, "settled", 2, "ok")
        /\ Logged(r, "action", 3, "throw")


\* C17: within one invocation every predicate and every action is handed the
\* same context: a predicate reading vars.x at step j returns true exactly
\* when the action of an earlier step i < j of this invocation wrote x, and an
\* action reading x at step j finds it exactly then; the steps between i and
\* j may have been skipped.
C17_ContextShared ==
    \A r \in Runs : \A j \in 1..Len(log[r]) :
        LET e == log[r][j]
        IN  /\ (e.ev = "when" /\ plan[r].steps[e.step].when = "ifset")
                   => (e.res = "true" <=> SetBefore(r, e.step))
            /\ (e.ev = "settled" /\ plan[r].steps[e.step].action = "get")
                   => (e.res = "ok" <=> SetBefore(r, e.step))

\* step 1 wrote x, step 2 was skipped, the predicate of step 3 read x as true
\* and its action found x
C17_Witness ==
    \E r \in Runs :
        /\ NSteps(r) = 3
        /\ plan[r].steps[1].action = "set"
        /\ plan[r].steps[3] = [id |-> <<"p", "-", "s", "3">>, name |-> <<"c">>,
                               action |-> "get", when |-> "ifset"]
        /\ Logged(r, "settled", 1, "ok")
        /\ Logged(r, "when", 2, "false")
        /\ Logged(r, "when", 3, "true")
        /\ Logged(r, "settled", 3, "ok")

\* C18: no step of a run changes the plan: its id, its name, its steps (their
\* number, order, ids and names) stay what they were, whatever the outcome of
\* the run and however often the plan is run.
C18_PlanUnchanged ==
    [][\A r \in Runs :
          /\ plan'[r].id = plan[r].id
          /\ plan'[r].name = plan[r].name
          /\ Len(plan'[r].steps) = Len(plan[r].steps)
          /\ \A i \in 1..Len(plan[r].steps) :
                /\ plan'[r].steps[i].id = plan[r].steps[i].id
                /\ plan'[r].steps[i].name = plan[r].steps[i].name
                /\ plan'[r].steps[i] = plan[r].steps[i]]_vars

\* the plan "p" of two steps has been run MaxCalls times, the last run
\* returning success, and is the plan makePlan returned
C18_Witness ==
    \E r \in Runs :
        /\ callsLeft[r] = 0
        /\ MaxCalls > 1
        /\ pc[r] = "done"
        /\ Succeeded(r)
        /\ NSteps(r) = 2
        /\ plan[r] \in RerunPlans
        /\ plan[r].id = PlanName
        /\ plan[r].steps[2].id = <<"p", "-", "s", "2">>

----------------------------------------------------------------------------
\* Two invocations in flight at once, of the same plan or of different plans,
\* their steps interleaving at the awaits.

MaxConcSteps == 2

\* steps that write vars.x, read it in the action, read it in the predicate
ConcKinds == { <<"set", "none">>, <<"get", "none">>, <<"get", "ifset">> }

ConcPlans ==
    UNION { { makePlan(PlanName,
                       [i \in 1..n |-> [name |-> StepName(i), action |-> b[i][1], when |-> b[i][2]]])
              : b \in [1..n -> ConcKinds] }
            : n \in 1..MaxConcSteps }

InitConc ==
    \E p \in [Runs -> ConcPlans] :
        /\ plan = p
        /\ sink = [r \in Runs |-> [kind |-> "none", throwsOn |-> {}]]
        /\ callsLeft = [r \in Runs |-> 1]
        /\ pc = [r \in Runs |-> "idle"]
        /\ idx = [r \in Runs |-> 1]
        /\ ctx = [r \in Runs |-> NewContext]
        /\ summary = [r \in Runs |-> <<>>]
        /\ inflight = [r \in Runs |-> {}]
        /\ runner = [r \in Runs |-> Pending]
        /\ outcome = [r \in Runs |-> Pending]
        /\ calls = [r \in Runs |-> <<>>]
        /\ log = [r \in Runs |-> <<>>]

\* the steps these plans can take: none of their actions or predicates throws
NextConc ==
    \E r \in Runs :
        \/ Run(r)
        \/ Skip(r)
        \/ Invoke(r)
        \/ Settle(r)
        \/ Return(r)
        \/ Resume(r)

SpecConc == InitConc /\ [][NextConc]_vars

\* C15: with two runs interleaving, each run's context holds x exactly when a
\* step of that same run wrote it, and every predicate and action of a run
\* that reads x sees it exactly when an earlier step of that same run wrote
\* it: what the other run writes is never seen.
C15_RunsIsolated ==
    \A r \in Runs :
        /\ pc[r] # "idle" => (GetVar(ctx[r], "x") <=> SetBefore(r, NSteps(r) + 1))
        /\ \A j \in 1..Len(log[r]) :
              LET e == log[r][j]
              IN  /\ (e.ev = "when" /\ plan[r].steps[e.step].when = "ifset")
                         => (e.res = "true" <=> SetBefore(r, e.step))
                  /\ (e.ev = "settled" /\ plan[r].steps[e.step].action = "get")
                         => (e.res = "ok" <=> SetBefore(r, e.step))

\* both runs are in flight: the first has written x and awaits its second
\* step, the second has read x as absent in the predicate of its first step
\* and awaits its second step; their contexts differ
C15_Witness ==
    /\ pc["r1"] = "await"
    /\ pc["r2"] = "await"
    /\ idx["r1"] = 2
    /\ idx["r2"] = 2
    /\ plan["r1"].steps[1].action = "set"
    /\ Logged("r1", "settled", 1, "ok")
    /\ plan["r2"].steps[1].when = "ifset"
    /\ Logged("r2", "when", 1, "false")
    /\ GetVar(ctx["r1"], "x")
    /\ ~GetVar(ctx["r2"], "x")

----------------------------------------------------------------------------
\* makePlan on inputs whose steps carry an explicit id or lack one.

MaxMakeSteps == 2

\* plan names, among them the empty string and a name with a blank
MakeNames == { <<"p">>, <<"q">>, <<>>, <<"a", " ", "b">> }

\* explicit ids: one of its own, one that looks like a generated id, the
\* empty string (not nullish: `??` keeps it)
ExplicitIds == { <<"k">>, <<"p", "-", "s", "1">>, <<>> }

MakeKinds == { <<"ok", "none">>, <<"set", "ifset">> }

\* the step specifications for position i
MakeStepSpecs(i) ==
    { [name |-> StepName(i), action |-> b[1], when |-> b[2]] : b \in MakeKinds }
    \cup { [id |-> e, name |-> StepName(i), action |-> b[1], when |-> b[2]]
           : e \in ExplicitIds, b \in MakeKinds }

MakeInputs ==
    UNION { { s \in [1..n -> UNION { MakeStepSpecs(i) : i \in 1..n }] :
                \A i \in 1..n : s[i] \in MakeStepSpecs(i) }
            : n \in 0..MaxMakeSteps }

\* `plan` holds the arguments until makePlan has been called
InitMake ==
    \E n \in MakeNames, in \in MakeInputs :
        /\ plan = [r \in Runs |-> IF r = "r1" THEN [name |-> n, steps |-> in] ELSE EmptyPlan]
        /\ pc = [r \in Runs |-> IF r = "r1" THEN "new" ELSE "idle"]
        /\ sink = [r \in Runs |-> [kind |-> "none", throwsOn |-> {}]]
        /\ callsLeft = [r \in Runs |-> 0]
        /\ idx = [r \in Runs |-> 1]
        /\ ctx = [r \in Runs |-> NewContext]
        /\ summary = [r \in Runs |-> <<>>]
        /\ inflight = [r \in Runs |-> {}]
        /\ runner = [r \in Runs |-> Pending]
        /\ outcome = [r \in Runs |-> Pending]
        /\ calls = [r \in Runs |-> <<>>]
        /\ log = [r \in Runs |-> <<>>]

\* plan.ts:27-35
Make(r) ==
    /\ pc[r] = "new"
    /\ plan' = Upd(plan, r, makePlan(plan[r].name, plan[r].steps))
    /\ pc' = Upd(pc, r, "idle")
    /\ UNCHANGED <<sink, idx, ctx, summary, inflight, runner, outcome, calls, log, callsLeft>>

NextMake == \E r \in Runs : Make(r)

SpecMake == InitMake /\ [][NextMake]_vars

\* "1", "2", ...: the decimal numerals of the positions
Numeral(i) == <<"1", "2", "3", "4", "5", "6", "7", "8", "9">>[i]

\* C19: the plan makePlan(name, steps) returns has as many steps as the
\* input, in input order; the step at position i (1-based) has the input's id
\* if the input has one and "<name>-s<i>" otherwise, i counting all input
\* steps; name, action and when are the input's.
C19_MakePlan ==
    [][\A r \in Runs :
          (pc[r] = "new" /\ pc'[r] = "idle") =>
              LET n   == plan[r].name
                  in  == plan[r].steps
                  out == plan'[r].steps
              IN  /\ Len(out) = Len(in)
                  /\ \A i \in 1..Len(in) :
                        /\ "id" \in DOMAIN in[i] => out[i].id = in[i].id
                        /\ "id" \notin DOMAIN in[i]
                              => out[i].id = n \o <<"-", "s", Numeral(i)>>
                        /\ out[i].name = in[i].name
                        /\ out[i].action = in[i].action
                        /\ out[i].when = in[i].when
                        /\ DOMAIN out[i] = {"id", "name", "action", "when"}]_vars

\* makePlan("q", [{id: "k", ...}, {no id, ...}]) has returned: the second
\* step got "q-s2", which is no explicit id of the inputs
C19_Witness ==
    /\ pc["r1"] = "idle"
    /\ plan["r1"].name = <<"q">>
    /\ Len(plan["r1"].steps) = 2
    /\ plan["r1"].steps[1].id = <<"k">>
    /\ plan["r1"].steps[2].id = <<"q", "-", "s", "2">>
    /\ plan["r1"].steps[2].action = "set"
    /\ plan["r1"].steps[2].when = "ifset"

\* C20: in a plan returned by makePlan no two steps have the same id.
C20_StepIdsUnique ==
    \A r \in Runs :
        pc[r] # "new" =>
            \A i, j \in 1..Len(plan[r].steps) :
                i # j => plan[r].steps[i].id # plan[r].steps[j].id

----------------------------------------------------------------------------
\* an action of step i of run r was called, or settled
ActionRan(r, i) ==
    \E j \in 1..Len(log[r]) : log[r][j].ev \in {"action", "settled"} /\ log[r][j].step = i

\* C21: when the predicate of step k throws v, runPlan rejects with v, the
\* action of step k and the predicates and actions of the later steps are
\* never evaluated, the summary has no entry for step k, and run() (telemetry
\* not throwing) settles with the failure Result err(v) after recording
\* orchestrator.run.exception, not orchestrator.run.error.
C21_PredicateThrows ==
    \A r \in Runs : \A j \in 1..Len(log[r]) :
        (log[r][j].ev = "when" /\ log[r][j].res = "throw") =>
            LET k == log[r][j].step
                v == log[r][j].val
            IN  /\ runner[r] = Rejected(v)
                /\ ~ActionRan(r, k)
                /\ \A i \in (k + 1)..NSteps(r) : ~Touched(r, i) /\ ~ActionRan(r, i)
                /\ Len(summary[r]) = k - 1
                /\ \A m \in (j + 1)..Len(log[r]) : log[r][m].ev = "emit"
                /\ (SinkSound(r) /\ pc[r] = "done") =>
                      /\ outcome[r] = Fulfilled(err(v))
                      /\ sink[r].kind # "none" =>
                            /\ Len(calls[r]) = 2
                            /\ calls[r][2].level = "error"
                            /\ calls[r][2].msg = MsgException
                            /\ \A c \in 1..Len(calls[r]) : calls[r][c].msg # MsgError

\* step 1 wrote x, the predicate of step 2 threw the string "boom": run()
\* returned err("boom") and recorded the exception event; step 3 was not touched
C21_Witness ==
    \E r \in Runs :
        /\ sink[r].kind = "mock"
        /\ pc[r] = "done"
        /\ NSteps(r) = 3
        /\ Logged(r, "settled", 1, "ok")
        /\ \E j \in 1..Len(log[r]) :
              /\ log[r][j] = Entry("when", 2, "throw", StrVal(<<"b", "o", "o", "m">>))
        /\ outcome[r] = Fulfilled(err(StrVal(<<"b", "o", "o", "m">>)))
        /\ calls[r][2].msg = MsgException
        /\ ~Touched(r, 3)


\* C22: whatever value an action throws or rejects with, run() (recording
\* telemetry that does not throw) returns a failure Result and the recorded
\* orchestrator.run.exception event carries a non-empty message string.
C22_ExceptionMessageNonEmpty ==
    \A r \in Runs :
        (SinkSound(r) /\ sink[r].kind # "none" /\ pc[r] = "done" /\ ActionThrown(r) # {}) =>
            /\ outcome[r].state = "fulfilled"
            /\ ~outcome[r].value.ok
            /\ calls[r][Len(calls[r])].msg = MsgException
            /\ calls[r][Len(calls[r])].attrs.error.type = "string"
            /\ calls[r][Len(calls[r])].attrs.error.str # <<>>


\* the positions of the log of run r that hold the event msg
EmitAt(r, msg) == { j \in 1..Len(log[r]) : log[r][j].ev = "emit" /\ log[r][j].res = msg }

\* C23: with a recording telemetry that does not throw, the start event
\* precedes every evaluation of a predicate or an action; the terminal event
\* (ok, error) comes after the settlement of the last executed step, nothing is
\* evaluated after it, and run()'s promise is never settled before the
\* terminal event has been emitted.
C23_EventOrder ==
    \A r \in Runs :
        (SinkSound(r) /\ sink[r].kind # "none") =>
            /\ \A j \in 1..Len(log[r]) :
                  log[r][j].ev # "emit" => \E i \in EmitAt(r, MsgStart) : i < j
            /\ \A j \in EmitAt(r, MsgOk) \cup EmitAt(r, MsgError) :
                  /\ j = Len(log[r])
                  /\ inflight[r] = {}
                  /\ runner[r].state = "fulfilled"
                  /\ j > 2 => \/ log[r][j - 1].ev = "settled"
                              \/ (log[r][j - 1].ev = "when" /\ log[r][j - 1].res = "false")
                  /\ j = 2 => NSteps(r) = 0
            /\ (outcome[r].state = "fulfilled" /\ ~Threw(r)) =>
                  EmitAt(r, MsgOk) \cup EmitAt(r, MsgError) = {Len(log[r])}
            /\ outcome[r].state = "pending" =>
                  EmitAt(r, MsgOk) \cup EmitAt(r, MsgError) = {}

\* a recorded run of two steps: start, the two steps, then the error event
\* as the last entry, and the failure Result
C23_Witness ==
    \E r \in Runs :
        /\ sink[r].kind = "mock"
        /\ Logged(r, "settled", 1, "ok")
        /\ Logged(r, "settled", 2, "fail")
        /\ log[r][1].res = MsgStart
        /\ log[r][Len(log[r])].res = MsgError
        /\ log[r][Len(log[r]) - 1].ev = "settled"
        /\ outcome[r].state = "fulfilled"


\* C24: runPlan's promise is rejected only when an action or a predicate
\* threw (or an action's promise rejected); when none did and the loop is
\* over, runPlan has resolved with a Result: ok({steps}) or the failure of a
\* step.  The empty plan resolves with ok({steps: []}).
C24_RunnerNeverRaises ==
    \A r \in Runs :
        /\ runner[r].state = "rejected" => Threw(r)
        /\ (pc[r] \in {"resume", "done"} /\ ~Threw(r)) =>
              /\ runner[r].state = "fulfilled"
              /\ IsResult(runner[r].value)
              /\ runner[r].value.ok <=> ~StepFailedIn(r)
              /\ NSteps(r) = 0 => runner[r].value = ok([steps |-> <<>>])

\* the run of the empty plan has resolved with ok({steps: []}), and so has
\* the run before it
C24_Witness ==
    /\ pc["r2"] = "done"
    /\ NSteps("r2") = 0
    /\ runner["r2"] = Fulfilled(ok([steps |-> <<>>]))
    /\ runner["r1"] = Fulfilled(ok([steps |-> <<>>]))

----------------------------------------------------------------------------
\* Termination.  Plans whose actions may hang; run() is invoked once, and a
\* second orchestrator runs a plan of its own at the same time.

MaxLiveSteps == 2

\* steps that succeed, are skipped, fail, throw, reject, or hang
LiveKinds ==
    { <<"ok", "none">>, <<"get", "ifset">>, <<"fail", "none">>, <<"throw", "none">>,
      <<"reject", "none">>, <<"ok", "throw">>, <<"hang", "none">> }

LivePlans ==
    UNION { { makePlan(PlanName,
                       [i \in 1..n |-> [name |-> StepName(i), action |-> b[i][1], when |-> b[i][2]]])
              : b \in [1..n -> LiveKinds] }
            : n \in 0..MaxLiveSteps }

\* the plan of the second run: one step, gated by a predicate, that writes x
OtherPlan ==
    makePlan(<<"q">>, <<[name |-> StepName(1), action |-> "set", when |-> "true"]>>)

InitLive ==
    \E p \in LivePlans, k \in {"none", "mock"} :
        /\ plan = [r \in Runs |-> IF r = "r1" THEN p ELSE OtherPlan]
        /\ sink = [r \in Runs |-> [kind |-> IF r = "r1" THEN k ELSE "none", throwsOn |-> {}]]
        /\ callsLeft = [r \in Runs |-> 1]
        /\ pc = [r \in Runs |-> "idle"]
        /\ idx = [r \in Runs |-> 1]
        /\ ctx = [r \in Runs |-> NewContext]
        /\ summary = [r \in Runs |-> <<>>]
        /\ inflight = [r \in Runs |-> {}]
        /\ runner = [r \in Runs |-> Pending]
        /\ outcome = [r \in Runs |-> Pending]
        /\ calls = [r \in Runs |-> <<>>]
        /\ log = [r \in Runs |-> <<>>]

\* what goes on by itself once run() was invoked: the job queue runs every
\* continuation that is ready, and a promise that settles does so eventually
Advance(r) ==
    \/ Skip(r)
    \/ WhenThrows(r)
    \/ Invoke(r)
    \/ ActionThrows(r)
    \/ Settle(r)
    \/ Reject(r)
    \/ Return(r)
    \/ Resume(r)

SpecLive == InitLive /\ [][Next]_vars /\ \A r \in Runs : WF_vars(Advance(r))

\* run r awaits an action whose promise never settles
Hung(r) == pc[r] = "await" /\ Cur(r).action = "hang"

\* run r is over: run() has settled with a Result, after every step was
\* processed or at the first failure or exception
Completed(r) ==
    /\ pc[r] = "done"
    /\ outcome[r].state = "fulfilled"
    /\ IsResult(outcome[r].value)
    /\ \/ Len(summary[r]) = NSteps(r) /\ outcome[r].value.ok
       \/ StepFailedIn(r) /\ ~outcome[r].value.ok
       \/ Threw(r) /\ ~outcome[r].value.ok

\* C25: a run that has been started ends with a Result, unless it comes to
\* await an action that never settles.
C25_Terminates ==
    \A r \in Runs : (pc[r] \in {"loop", "await", "resume"}) ~> (Completed(r) \/ Hung(r))

\* a run of two steps is over with success
C25_Witness ==
    \E r \in Runs :
        /\ NSteps(r) = 2
        /\ Completed(r)
        /\ Logged(r, "settled", 1, "ok")
        /\ Logged(r, "settled", 2, "ok")


\* run r has been started and is not over
Started(r) == pc[r] \in {"loop", "await", "resume"}

\* C26: once a run awaits an action that never settles it stays there for
\* ever: its promises stay pending, no later step is touched, no terminal
\* event is emitted; and every other run that has been started still comes
\* to its end.
C26_HungRunNeverCompletes ==
    /\ \A r \in Runs :
          [](Hung(r) => [](/\ Hung(r)
                           /\ runner[r] = Pending
                           /\ outcome[r] = Pending
                           /\ \A i \in (idx[r] + 1)..NSteps(r) : ~Touched(r, i) /\ ~ActionRan(r, i)
                           /\ EmitAt(r, MsgOk) \cup EmitAt(r, MsgError) \cup EmitAt(r, MsgException) = {}))
    /\ \A r \in Runs : \A q \in Runs \ {r} :
          (Hung(r) /\ Started(q)) ~> (Completed(q) \/ Hung(q))

\* the first step of a recorded run of two steps hangs, nothing but the start
\* event was recorded; the other run is over
C26_Witness ==
    /\ Hung("r1")
    /\ idx["r1"] = 1
    /\ NSteps("r1") = 2
    /\ sink["r1"].kind = "mock"
    /\ Len(calls["r1"]) = 1
    /\ Completed("r2")


\* how often run r logged event ev for step i
Times(r, ev, i) ==
    Cardinality({ j \in 1..Len(log[r]) : log[r][j].ev = ev /\ log[r][j].step = i })

\* C27: in one invocation of run(), for every step of the plan the predicate
\* is evaluated at most once and the action is invoked at most once (and so
\* settles at most once), whether the step succeeded, failed, threw or was
\* skipped.
C27_NoRetries ==
    \A r \in Runs : \A i \in 1..NSteps(r) :
        /\ Times(r, "when", i) <= 1
        /\ Times(r, "action", i) <= 1
        /\ Times(r, "settled", i) <= Times(r, "action", i)

\* a run is over whose first step was skipped, whose second step succeeded
\* and whose third step failed: each was evaluated once
C27_Witness ==
    \E r \in Runs :
        /\ pc[r] = "done"
        /\ Logged(r, "when", 1, "false")
        /\ Logged(r, "settled", 2, "ok")
        /\ Logged(r, "settled", 3, "fail")
        /\ Times(r, "when", 1) = 1
        /\ Times(r, "action", 2) = 1
        /\ Times(r, "action", 3) = 1


\* C28: the plan makePlan(name, steps) returns has id = name and name = name,
\* character for character, for every name; nothing is trimmed, escaped or
\* otherwise normalised by asPlanId.
C28_PlanIdIsName ==
    [][\A r \in Runs :
          (pc[r] = "new" /\ pc'[r] = "idle") =>
              /\ plan'[r].id = plan[r].name
              /\ plan'[r].name = plan[r].name
              /\ asPlanId(plan[r].name) = plan[r].name
              /\ \A i \in 1..Len(plan'[r].steps) :
                    asStepId(plan'[r].steps[i].id) = plan'[r].steps[i].id]_vars

\* makePlan("a b", [two steps]) has returned a plan with id "a b" and name "a b"
C28_Witness ==
    /\ pc["r1"] = "idle"
    /\ plan["r1"].name = <<"a", " ", "b">>
    /\ plan["r1"].id = <<"a", " ", "b">>
    /\ Len(plan["r1"].steps) = 2
    /\ plan["r1"].steps[2].id = <<"a", " ", "b", "-", "s", "2">>

----------------------------------------------------------------------------
\* util/result: unwrap, applied by a caller to the Result run() returned.

\* how a call completes
Returns(v) == [kind |-> "return", value |-> v]

Throws(e) == [kind |-> "throw", value |-> e]

\* an unwrap that goes by the value instead of the tag
unwrapByValue(r) ==
    IF r.ok /\ Truthy(r.value) THEN Returns(r.value)
    ELSE Throws(IF r.ok THEN Undefined ELSE r.error)

\* unwrap(r): the value on success, throws the error on failure
unwrap(r) == IF r.ok THEN Returns(r.value) ELSE Throws(r.error)

\* values of success Results, falsy ones among them
ResultValues ==
    { EmptyObject, Undefined, StrVal(<<>>), StrVal(<<"v">>), [type |-> "number", num |-> 42],
      [type |-> "object", steps |-> <<>>],
      [type |-> "object", steps |-> <<[id |-> <<"p", "-", "s", "1">>, ok |-> TRUE]>>] }

\* errors of failure Results
ResultErrors == Thrown \cup StepErrors

ResultInputs == { ok(v) : v \in ResultValues } \cup { err(e) : e \in ResultErrors }

\* each run() has returned a Result
InitUnwrap ==
    \E res \in [Runs -> ResultInputs] :
        /\ outcome = [r \in Runs |-> Fulfilled(res[r])]
        /\ pc = [r \in Runs |-> "done"]
        /\ plan = [r \in Runs |-> EmptyPlan]
        /\ sink = [r \in Runs |-> [kind |-> "none", throwsOn |-> {}]]
        /\ callsLeft = [r \in Runs |-> 0]
        /\ idx = [r \in Runs |-> 1]
        /\ ctx = [r \in Runs |-> NewContext]
        /\ summary = [r \in Runs |-> <<>>]
        /\ inflight = [r \in Runs |-> {}]
        /\ runner = [r \in Runs |-> Pending]
        /\ calls = [r \in Runs |-> <<>>]
        /\ log = [r \in Runs |-> <<>>]

\* the caller evaluates unwrap(await orch.run(plan))
Unwrap(r) ==
    /\ pc[r] = "done"
    /\ outcome[r].state = "fulfilled"
    /\ LET c == unwrap(outcome[r].value)
       IN  log' = Upd(log, r, Append(log[r], Entry("unwrap", 0, c.kind, c.value)))
    /\ pc' = Upd(pc, r, "unwrapped")
    /\ UNCHANGED <<plan, sink, idx, ctx, summary, inflight, runner, outcome, calls, callsLeft>>

NextUnwrap == \E r \in Runs : Unwrap(r)

SpecUnwrap == InitUnwrap /\ [][NextUnwrap]_vars

\* C29: unwrap of a success Result returns its value, whatever the value
\* (undefined and the empty string included); unwrap of a failure Result
\* throws that Result's error.
C29_Unwrap ==
    \A r \in Runs :
        pc[r] = "unwrapped" =>
            LET res == outcome[r].value
                c   == log[r][Len(log[r])]
            IN  /\ c.ev = "unwrap"
                /\ res.ok => (c.res = "return" /\ c.val = res.value)
                /\ ~res.ok => (c.res = "throw" /\ c.val = res.error)
                /\ res.ok => unwrap(ok(res.value)) = Returns(res.value)

\* unwrap(ok(undefined)) has returned undefined, and unwrap(err("boom")) has
\* thrown "boom"
C29_Witness ==
    /\ pc["r1"] = "unwrapped"
    /\ outcome["r1"].value = ok(Undefined)
    /\ log["r1"] = <<Entry("unwrap", 0, "return", Undefined)>>
    /\ pc["r2"] = "unwrapped"
    /\ outcome["r2"].value = err(StrVal(<<"b", "o", "o", "m">>))
    /\ log["r2"] = <<Entry("unwrap", 0, "throw", StrVal(<<"b", "o", "o", "m">>))>>

----------------------------------------------------------------------------
\* the positions of the summary of run r that report a failed step
FailedEntries(r) == { i \in 1..Len(summary[r]) : ~summary[r][i].ok }

\* C30: in every state of a run the summary holds at most one entry with
\* ok = false, and such an entry is the last one.
C30_AtMostOneFailure ==
    \A r \in Runs :
        /\ Cardinality(FailedEntries(r)) <= 1
        /\ FailedEntries(r) \subseteq {Len(summary[r])}
        /\ FailedEntries(r) # {} => pc[r] \in {"resume", "done"}

\* a finished run of two steps whose second step failed: one failed entry,
\* the last one
C30_Witness ==
    \E r \in Runs :
        /\ pc[r] = "done"
        /\ Len(summary[r]) = 2
        /\ summary[r][1].ok
        /\ FailedEntries(r) = {2}

----------------------------------------------------------------------------
\* the level a message of the orchestrator is recorded at
LevelOf(msg) == IF msg \in {MsgStart, MsgOk} THEN "info" ELSE "error"

\* C31: every call run() makes on its telemetry is a call of info or of
\* error -- info for start and ok, error for error and exception -- and never
\* one of warn or startSpan, whether the run ends in success, failure or
\* exception.
C31_OnlyInfoAndError ==
    \A r \in Runs : \A c \in 1..Len(calls[r]) :
        /\ calls[r][c].level \in {"info", "error"}
        /\ calls[r][c].msg \in Msgs
        /\ calls[r][c].level = LevelOf(calls[r][c].msg)

\* a recorded run that ended with a failing step made two calls: info, error
C31_Witness ==
    \E r \in Runs :
        /\ sink[r].kind = "mock"
        /\ pc[r] = "done"
        /\ StepFailedIn(r)
        /\ Len(calls[r]) = 2
        /\ calls[r][1].level = "info"
        /\ calls[r][2].level = "error"
        /\ calls[r][2].msg = MsgError


\* the log entries run r gains in a step (run() invoked anew starts a new log)
Gained(r) ==
    IF Len(log'[r]) >= Len(log[r]) /\ SubSeq(log'[r], 1, Len(log[r])) = log[r]
    THEN SubSeq(log'[r], Len(log[r]) + 1, Len(log'[r]))
    ELSE log'[r]

\* C32: a predicate is evaluated in the step in which the loop is at its
\* step j, not when run() is invoked, and against the context of that
\* moment, which holds what steps 1..j-1 wrote: a predicate reading x returns
\* true exactly when x is set then, and the step is skipped exactly when it
\* returns false.
C32_LazyGating ==
    [][\A r \in Runs : \A m \in 1..Len(Gained(r)) :
          LET e == Gained(r)[m]
          IN  e.ev = "when" =>
                  /\ pc[r] = "loop"
                  /\ e.step = idx[r]
                  /\ Len(summary[r]) = idx[r] - 1
                  /\ plan[r].steps[e.step].when = "ifset" =>
                        /\ e.res = (IF GetVar(ctx[r], "x") THEN "true" ELSE "false")
                        /\ GetVar(ctx[r], "x") <=> SetBefore(r, e.step)
                  /\ e.res = "false" <=> idx'[r] = idx[r] + 1
                  /\ e.res = "true" <=> pc'[r] = "await"]_vars

\* step 1 wrote x and the predicate of step 2, which reads x, then returned
\* true: its action was called
C32_Witness ==
    \E r \in Runs :
        /\ NSteps(r) = 2
        /\ plan[r].steps[1].action = "set"
        /\ plan[r].steps[2].when = "ifset"
        /\ Logged(r, "settled", 1, "ok")
        /\ Logged(r, "when", 2, "true")
        /\ Logged(r, "action", 2, "called")


\* C33: when the action of step k throws, or its promise rejects, with v:
\* runPlan rejects with v, nothing of steps k+1..N is evaluated, the summary
\* has the k-1 entries of the steps before and none for step k, and neither
\* orchestrator.run.ok nor orchestrator.run.error is emitted in that run.
C33_ExceptionShortCircuits ==
    \A r \in Runs : \A j \in 1..Len(log[r]) :
        (log[r][j].ev \in {"action", "settled"} /\ log[r][j].res \in {"throw", "reject"}) =>
            LET k == log[r][j].step
            IN  /\ runner[r] = Rejected(log[r][j].val)
                /\ \A i \in (k + 1)..NSteps(r) : ~Touched(r, i) /\ ~ActionRan(r, i)
                /\ \A m \in (j + 1)..Len(log[r]) : log[r][m].ev = "emit"
                /\ Len(summary[r]) = k - 1
                /\ \A i \in 1..Len(summary[r]) : summary[r][i].ok
                /\ EmitAt(r, MsgOk) \cup EmitAt(r, MsgError) = {}
                /\ \A c \in 1..Len(calls[r]) : calls[r][c].msg \notin {MsgOk, MsgError}
                /\ pc[r] = "done" => (outcome[r].state = "fulfilled" /\ ~outcome[r].value.ok)

\* a recorded run of two steps whose first action threw: the summary is
\* empty, step 2 was not touched, the events are start and exception
C33_Witness ==
    \E r \in Runs :
        /\ sink[r].kind = "mock"
        /\ pc[r] = "done"
        /\ NSteps(r) = 2
        /\ Logged(r, "action", 1, "throw")
        /\ summary[r] = <<>>
        /\ ~Touched(r, 2)
        /\ Len(calls[r]) = 2
        /\ calls[r][2].msg = MsgException


\* the steps of run r that were skipped or whose action returned a Result
Processed(r) ==
    { i \in 1..NSteps(r) :
        Logged(r, "when", i, "false") \/ Logged(r, "settled", i, "ok") \/ Logged(r, "settled", i, "fail") }

\* C34: in every state of a run the summary has one entry per step processed
\* so far (skipped, or settled with a Result), these steps are the first ones
\* of the plan, the i-th entry carries the id of plan.steps[i]; and a step of
\* the run leaves the entries there are as they are, appending at most one.
C34_SummaryAligned ==
    /\ [](\A r \in Runs :
             /\ Len(summary[r]) = Cardinality(Processed(r))
             /\ Processed(r) = 1..Len(summary[r])
             /\ Len(summary[r]) <= NSteps(r)
             /\ \A i \in 1..Len(summary[r]) : summary[r][i].id = plan[r].steps[i].id)
    /\ [][\A r \in Runs :
             pc[r] \notin {"idle", "done"} =>
                 /\ Len(summary'[r]) \in {Len(summary[r]), Len(summary[r]) + 1}
                 /\ SubSeq(summary'[r], 1, Len(summary[r])) = summary[r]]_vars

\* the second action of a run of two steps is in flight: the first step was
\* skipped and the summary holds its entry, and only that one
C34_Witness ==
    \E r \in Runs :
        /\ NSteps(r) = 2
        /\ pc[r] = "await"
        /\ idx[r] = 2
        /\ Logged(r, "when", 1, "false")
        /\ summary[r] = <<[id |-> <<"p", "-", "s", "1">>, ok |-> TRUE]>>

----------------------------------------------------------------------------
\* two steps of the sequence ss carry the same id
HasDuplicateId(ss) == \E i, j \in 1..Len(ss) : i # j /\ ss[i].id = ss[j].id

\* C35: when no input step of makePlan carries an id, the ids of the
\* returned plan are pairwise distinct; a returned plan with two equal step
\* ids comes from an input with at least one explicit id.
C35_GeneratedIdsDistinct ==
    [][\A r \in Runs :
          (pc[r] = "new" /\ pc'[r] = "idle") =>
              /\ (\A i \in 1..Len(plan[r].steps) : "id" \notin DOMAIN plan[r].steps[i])
                    => ~HasDuplicateId(plan'[r].steps)
              /\ HasDuplicateId(plan'[r].steps)
                    => \E i \in 1..Len(plan[r].steps) : "id" \in DOMAIN plan[r].steps[i]]_vars

\* makePlan("q", [two steps]) has returned the ids "q-s1" and "q-s2", which
\* are no explicit ids of the inputs: both were generated
C35_Witness ==
    /\ pc["r1"] = "idle"
    /\ plan["r1"].name = <<"q">>
    /\ Len(plan["r1"].steps) = 2
    /\ plan["r1"].steps[1].id = <<"q", "-", "s", "1">>
    /\ plan["r1"].steps[2].id = <<"q", "-", "s", "2">>
    /\ ~HasDuplicateId(plan["r1"].steps)


\* C36: the run of a plan without steps evaluates no predicate and no
\* action, runPlan returns ok({steps: []}) and so does run(); a recording
\* telemetry that does not throw receives info(orchestrator.run.start) and
\* then info(orchestrator.run.ok, {steps: 0}), and nothing else.
C36_EmptyPlan ==
    \A r \in Runs :
        (NSteps(r) = 0 /\ SinkSound(r)) =>
            /\ \A j \in 1..Len(log[r]) : log[r][j].ev = "emit"
            /\ summary[r] = <<>>
            /\ inflight[r] = {}
            /\ pc[r] = "done" =>
                  /\ runner[r] = Fulfilled(ok([steps |-> <<>>]))
                  /\ outcome[r] = Fulfilled(ok([steps |-> <<>>]))
                  /\ sink[r].kind = "none" => calls[r] = <<>>
                  /\ sink[r].kind # "none" =>
                        calls[r] =
                            << [ level |-> "info", msg |-> MsgStart,
                                 attrs |-> [planId |-> plan[r].id, name |-> plan[r].name] ],
                               [ level |-> "info", msg |-> MsgOk, attrs |-> [steps |-> 0] ] >>

\* the recorded run of the empty plan is over with ok({steps: []}) and the
\* events start, ok
C36_Witness ==
    \E r \in Runs :
        /\ NSteps(r) = 0
        /\ sink[r].kind = "mock"
        /\ pc[r] = "done"
        /\ outcome[r] = Fulfilled(ok([steps |-> <<>>]))
        /\ Len(calls[r]) = 2
        /\ calls[r][2].attrs = [steps |-> 0]

----------------------------------------------------------------------------
\* The same plan run on two orchestrators with the same kind of telemetry:
\* once on the first, then twice in a row on the second.

MaxTwinSteps == 2

\* steps that write x, read x, fail, throw, reject, or whose predicate throws
TwinKinds ==
    { <<"set", "none">>, <<"get", "ifset">>, <<"fail", "none">>, <<"throw", "none">>,
      <<"reject", "none">>, <<"ok", "throw">> }

TwinPlans ==
    UNION { { makePlan(PlanName,
                       [i \in 1..n |-> [name |-> StepName(i), action |-> b[i][1], when |-> b[i][2]]])
              : b \in [1..n -> TwinKinds] }
            : n \in 0..MaxTwinSteps }

InitTwin ==
    \E p \in TwinPlans, k \in {"none", "mock"} :
        /\ plan = [r \in Runs |-> p]
        /\ sink = [r \in Runs |-> [kind |-> k, throwsOn |-> {}]]
        /\ callsLeft = [r \in Runs |-> IF r = "r1" THEN 1 ELSE 2]
        /\ pc = [r \in Runs |-> "idle"]
        /\ idx = [r \in Runs |-> 1]
        /\ ctx = [r \in Runs |-> NewContext]
        /\ summary = [r \in Runs |-> <<>>]
        /\ inflight = [r \in Runs |-> {}]
        /\ runner = [r \in Runs |-> Pending]
        /\ outcome = [r \in Runs |-> Pending]
        /\ calls = [r \in Runs |-> <<>>]
        /\ log = [r \in Runs |-> <<>>]

SpecTwin == InitTwin /\ [][NextSinks]_vars

\* both runs are over, the values their steps returned or threw are the same
TwinsDone ==
    /\ pc["r1"] = "done"
    /\ pc["r2"] = "done"
    /\ SameBehaviour

\* C37: two runs of the same plan whose steps return or throw the same
\* values -- the second of them a first run or a re-run of its orchestrator --
\* evaluate the same predicates and actions with the same results and end
\* with equal Results, equal summaries and the same sequence of telemetry
\* events.
C37_Deterministic ==
    TwinsDone =>
        /\ outcome["r1"] = outcome["r2"]
        /\ runner["r1"] = runner["r2"]
        /\ summary["r1"] = summary["r2"]
        /\ calls["r1"] = calls["r2"]
        /\ log["r1"] = log["r2"]
        /\ ctx["r1"] = ctx["r2"]

\* the second orchestrator has run the plan twice; its re-run and the run of
\* the first one both wrote x in step 1, read it in step 2 and recorded the
\* same two events
C37_Witness ==
    /\ TwinsDone
    /\ callsLeft["r2"] = 0
    /\ sink["r1"].kind = "mock"
    /\ NSteps("r1") = 2
    /\ plan["r1"].steps[1].action = "set"
    /\ Logged("r1", "when", 2, "true")
    /\ Logged("r2", "settled", 2, "ok")
    /\ Len(calls["r2"]) = 2
    /\ calls["r1"] = calls["r2"]

====
